---- MODULE Spec2Model ----
(***************************************************************************)
(* Model of main.py: the daily digest run.  For every configured channel   *)
(* the run resolves the channel id (resolve_uc_id, with a cache), selects  *)
(* a recent video (pick_latest_video), and drives download -> normalize -> *)
(* split -> transcribe under a bounded retry loop (process_channel).       *)
(*                                                                         *)
(* Strings of the program are modelled by what the code does with them:    *)
(*   - an upload date, an id, a url, a title, a transcript is a sequence   *)
(*     of one-character strings;                                           *)
(*   - a diagnostic text is a sequence of chunks, each with a length and   *)
(*     a name that tells which substrings the classifiers find in it;      *)
(*   - a stage, a label, a status is an atom (a TLA+ string).              *)
(* Python's None is NoneS among atoms, NoneQ among character sequences and *)
(* NoneT among diagnostic texts.                                           *)
(* Instants are whole hours since 1970-01-01T00:00Z.                       *)
(***************************************************************************)
EXTENDS Integers, Sequences, FiniteSets, TLC

NoneS == "None"
NoneQ == <<"None">>
NoneT == <<[s |-> "None", n |-> 0]>>

\* ------------------------------------------------------------------------
\* Program constants
\* ------------------------------------------------------------------------
RECENT_HOURS == 24
MAX_RETRIES == 2
ListingCap == 30

\* ------------------------------------------------------------------------
\* Bounds of the model
\* ------------------------------------------------------------------------
\* entries of a listing that follow its (possibly empty) run of stale entries
MaxTail == 2

\* runs of main in a row
MaxRuns == 2

\* ------------------------------------------------------------------------
\* Dates: parse_upload_date_yyyymmdd
\* ------------------------------------------------------------------------
Digits == <<"0", "1", "2", "3", "4", "5", "6", "7", "8", "9">>

IsDigit(c) == \E k \in 1..10 : Digits[k] = c

DigitVal(c) == (CHOOSE k \in 1..10 : Digits[k] = c) - 1

IsLeap(y) == (y % 4 = 0 /\ y % 100 # 0) \/ y % 400 = 0

DaysInMonth(y, m) ==
    IF m = 2 THEN (IF IsLeap(y) THEN 29 ELSE 28)
    ELSE IF m \in {4, 6, 9, 11} THEN 30 ELSE 31

\* days from 1970-01-01 to the civil date y-m-d (proleptic Gregorian)
DaysFromCivil(y, m, d) ==
    LET yy  == IF m <= 2 THEN y - 1 ELSE y
        era == yy \div 400
        yoe == yy - era * 400
        mp  == (m + 9) % 12
        doy == ((153 * mp + 2) \div 5) + d - 1
        doe == yoe * 365 + (yoe \div 4) - (yoe \div 100) + doy
    IN  era * 146097 + doe - 719468

\* [kind |-> "none"]            the function returns None
\* [kind |-> "raise"]           strptime raises ValueError
\* [kind |-> "dt", h |-> hours] midnight UTC of the day
parse_upload_date_yyyymmdd(s) ==
    IF s = NoneQ \/ s = <<>> THEN [kind |-> "none"]
    ELSE IF Len(s) # 8 \/ \E i \in 1..Len(s) : ~IsDigit(s[i]) THEN [kind |-> "none"]
    ELSE LET v(i) == DigitVal(s[i])
             y == v(1) * 1000 + v(2) * 100 + v(3) * 10 + v(4)
             m == v(5) * 10 + v(6)
             d == v(7) * 10 + v(8)
         IN  IF y < 1 \/ m < 1 \/ m > 12 \/ d < 1 \/ d > DaysInMonth(y, m)
             THEN [kind |-> "raise"]
             ELSE [kind |-> "dt", h |-> DaysFromCivil(y, m, d) * 24]

within_recent_window(upload_dt, hours, now) ==
    IF upload_dt.kind # "dt" THEN FALSE
    ELSE now - upload_dt.h <= hours

\* ------------------------------------------------------------------------
\* pick_latest_video: the scan of the listing
\* ------------------------------------------------------------------------
\* `e.get("id")` is falsy when the key is missing or the id is empty
HasId(e) == e.id # NoneQ /\ e.id # <<>>

\* an entry the loop returns: it has an id and its date parses to an instant
\* inside the window (utc_now() is read once per call in the model: the scan
\* takes far less than the clock's granularity of one hour)
EntryMatches(e, now) ==
    /\ HasId(e)
    /\ within_recent_window(parse_upload_date_yyyymmdd(e.upload_date), RECENT_HOURS, now)

EntryRaises(e) ==
    /\ HasId(e)
    /\ parse_upload_date_yyyymmdd(e.upload_date).kind = "raise"

Min2(a, b) == IF a <= b THEN a ELSE b

\* the loop `for e in entries[:30]` from position i on:
\* [kind |-> "none"], [kind |-> "raise"] (ValueError of strptime leaves the
\* function), [kind |-> "found", idx |-> i]
RECURSIVE ScanFrom(_, _, _)
ScanFrom(entries, now, i) ==
    IF i > Min2(Len(entries), ListingCap) THEN [kind |-> "none", idx |-> 0]
    ELSE IF ~HasId(entries[i]) THEN ScanFrom(entries, now, i + 1)
    ELSE IF EntryRaises(entries[i]) THEN [kind |-> "raise", idx |-> i]
    ELSE IF EntryMatches(entries[i], now) THEN [kind |-> "found", idx |-> i]
    ELSE ScanFrom(entries, now, i + 1)

PickScan(entries, now) == ScanFrom(entries, now, 1)

\* the tuple the function returns for a scan result
PickResult(entries, scan) ==
    IF scan.kind = "found"
    THEN [vurl  |-> <<"w", "?", "v", "=">> \o entries[scan.idx].id,
          title |-> IF entries[scan.idx].title = NoneQ THEN <<>> ELSE entries[scan.idx].title,
          udate |-> entries[scan.idx].upload_date]
    ELSE [vurl |-> NoneQ, title |-> NoneQ, udate |-> NoneQ]


\* ------------------------------------------------------------------------
\* Diagnostic texts: stderr of the tools, exception messages
\* ------------------------------------------------------------------------
\* A text is a sequence of chunks [s, n, q]: s names the chunk, n is its
\* length in characters, q is its characters when the chunk is a value
\* formatted into the text (a url, a date) and <<>> otherwise.
Chunk(s, n) == [s |-> s, n |-> n, q |-> <<>>]

Arg(q) == [s |-> "arg", n |-> Len(q), q |-> q]

\* q contains the characters p as a substring
Contains(q, p) ==
    \E i \in 0..(Len(q) - Len(p)) : \A j \in 1..Len(p) : q[i + j] = p[j]

\* the patterns of label_error found in the lower-cased chunk named s
LowerHits(s) ==
    CASE s = "ERROR: HTTP Error 403: Forbidden" -> {"http error 403", "error"}
      [] s = "HTTP Error 429: Too Many Requests" -> {"http error 429", "too many requests", "429"}
      [] s = "ffmpeg: Invalid data found" -> {"ffmpeg", "invalid"}
      [] s = "Command '['yt-dlp'," -> {}
      [] s = "Command '['ffmpeg'," -> {"ffmpeg"}
      [] s = "]' timed out after N seconds" -> {"timed out"}
      [] s = "ffmpeg normalize failed(" -> {"ffmpeg"}
      [] s = "ffmpeg split failed(" -> {"ffmpeg"}
      [] s = "Whisper result text is empty(WHISPER_EMPTY)" -> {"whisper result text is empty", "empty"}
      [] s = "HTTP_401" -> {"401"}
      [] s = "HTTP_429" -> {"429"}
      [] s = "HTTP_404" -> {"404"}
      [] s = "LIVE" -> {"live"}
      [] s = "FFMPEG_MISSING" -> {"ffmpeg"}
      [] s = "FFMPEG_FAIL" -> {"ffmpeg"}
      [] s = "TIMEOUT" -> {"timeout"}
      [] s = "WHISPER_EMPTY" -> {"empty"}
      [] s = "PREMIERE_NOT_STARTED" -> {"premiere"}
      [] OTHER -> {}

\* the digit patterns of label_error found in a formatted value
DigitPatterns ==
    [p \in {"401", "429", "404"} |->
        CASE p = "401" -> <<"4", "0", "1">>
          [] p = "429" -> <<"4", "2", "9">>
          [] p = "404" -> <<"4", "0", "4">>]

ArgHits(q) == {p \in DOMAIN DigitPatterns : Contains(q, DigitPatterns[p])}

\* `p in s` of label_error, s the lower-cased text
InLower(p, text) ==
    \E i \in 1..Len(text) :
        IF text[i].s = "arg" THEN p \in ArgHits(text[i].q) ELSE p \in LowerHits(text[i].s)

\* the patterns of stage_reason_from_exception found in the chunk named s
RawHits(s) ==
    CASE s = "yt-dlp channel lookup failed(" -> {"yt-dlp channel lookup failed", "channel lookup failed"}
      [] s = "channel lookup failed(" -> {"channel lookup failed"}
      [] s = "channel_id extraction failed" -> {"channel_id extraction failed"}
      [] s = "audio download failed(" -> {"audio download failed"}
      [] s = "audio file was not created(FILE_NOT_FOUND)" -> {"audio file was not created"}
      [] s = "ffmpeg normalize failed(" -> {"ffmpeg normalize failed"}
      [] s = "ffmpeg split failed(" -> {"ffmpeg split failed"}
      [] s = "Whisper result text is empty(WHISPER_EMPTY)" -> {"Whisper result text is empty"}
      [] OTHER -> {}

\* `p in m` of stage_reason_from_exception
InRaw(p, text) == \E i \in 1..Len(text) : p \in RawHits(text[i].s)

\* the slice t[-n:]: the last n characters.  A chunk cut in the middle keeps
\* its name only when it is filler; any other cut chunk loses its patterns.
RECURSIVE LastChars(_, _)
LastChars(t, n) ==
    IF t = <<>> \/ n <= 0 THEN <<>>
    ELSE LET last == t[Len(t)]
             init == SubSeq(t, 1, Len(t) - 1)
         IN  IF last.n <= n THEN Append(LastChars(init, n - last.n), last)
             ELSE IF last.s = "arg"
                  THEN <<Arg(SubSeq(last.q, Len(last.q) - n + 1, Len(last.q)))>>
                  ELSE <<Chunk(IF last.s = "filler" THEN "filler" ELSE "cut", n)>>

label_error(text) ==
    IF InLower("http error 403", text) \/ InLower("403 forbidden", text) THEN "HTTP_403"
    ELSE IF InLower("http error 401", text) \/ InLower("401", text) THEN "HTTP_401"
    ELSE IF InLower("http error 429", text) \/ InLower("too many requests", text)
            \/ InLower("429", text) THEN "HTTP_429"
    ELSE IF InLower("http error 404", text) \/ InLower("requested entity was not found", text)
            \/ InLower("404", text) THEN "HTTP_404"
    ELSE IF InLower("not available in your country", text) \/ InLower("geoblock", text)
         THEN "GEO_BLOCK"
    ELSE IF InLower("sign in to confirm your age", text) \/ InLower("age-restricted", text)
         THEN "AGE_RESTRICTED"
    ELSE IF InLower("private video", text) \/ InLower("this video is private", text)
         THEN "PRIVATE_VIDEO"
    ELSE IF InLower("premiere", text)
            /\ (InLower("not started", text) \/ InLower("will begin", text))
         THEN "PREMIERE_NOT_STARTED"
    ELSE IF InLower("live", text)
            /\ (InLower("is currently live", text) \/ InLower("livestream", text)
                \/ InLower("live event", text))
         THEN "LIVE"
    ELSE IF InLower("no video formats found", text) THEN "NO_FORMAT"
    ELSE IF InLower("requested format is not available", text) THEN "FORMAT_UNAVAILABLE"
    ELSE IF InLower("unable to download webpage", text) \/ InLower("failed to download", text)
         THEN "DOWNLOAD_WEBPAGE_FAIL"
    ELSE IF InLower("could not find ffmpeg", text) THEN "FFMPEG_MISSING"
    ELSE IF InLower("ffmpeg", text)
            /\ (InLower("error", text) \/ InLower("invalid", text) \/ InLower("failed", text))
         THEN "FFMPEG_FAIL"
    ELSE IF InLower("timeout", text) \/ InLower("timed out", text) THEN "TIMEOUT"
    ELSE IF InLower("whisper result text is empty", text)
            \/ (InLower("empty", text) /\ InLower("text", text))
         THEN "WHISPER_EMPTY"
    ELSE "UNKNOWN"

\* <<stage, reason>>
stage_reason_from_exception(m) ==
    IF InRaw("yt-dlp channel lookup failed", m) \/ InRaw("channel lookup failed", m)
       \/ InRaw("channel_id extraction failed", m)
    THEN <<"FETCH", "channel meta/id lookup failed">>
    ELSE IF InRaw("audio download failed", m) \/ InRaw("audio file was not created", m)
    THEN <<"DOWNLOAD", "audio download failed (blocked/restricted/format)">>
    ELSE IF InRaw("ffmpeg normalize failed", m)
    THEN <<"DOWNLOAD", "audio normalize failed (ffmpeg/codec)">>
    ELSE IF InRaw("ffmpeg split failed", m)
    THEN <<"SPLIT", "audio split failed (ffmpeg segment)">>
    ELSE IF InRaw("Whisper result text is empty", m)
    THEN <<"TRANSCRIBE", "Whisper result text empty">>
    ELSE <<"TRANSCRIBE", "unknown error while processing">>

\* the message f"<prefix>({label_error(err)}): {err[-500:]}" of a failed tool
ToolFailure(prefix, err) ==
    <<Chunk(prefix, 12), Chunk(label_error(err), 8), Chunk("): ", 3)>> \o LastChars(err, 500)

\* the message of subprocess.TimeoutExpired: the command line, then the limit
TimeoutMessage(tool, args) ==
    <<Chunk(IF tool = "ffmpeg" THEN "Command '['ffmpeg'," ELSE "Command '['yt-dlp',", 19)>>
    \o [i \in 1..Len(args) |-> Arg(args[i])]
    \o <<Chunk("]' timed out after N seconds", 28)>>

JsonDecodeMessage == <<Chunk("Expecting value: line 1 column 1 (char 0)", 41)>>

\* ------------------------------------------------------------------------
\* resolve_uc_id and its cache
\* ------------------------------------------------------------------------
\* A url is a sequence of tokens: scheme, host, "/", path segments.
RECURSIVE RStripSlash(_)
RStripSlash(u) ==
    IF u # <<>> /\ u[Len(u)] = "/" THEN RStripSlash(SubSeq(u, 1, Len(u) - 1)) ELSE u

NormalizeUrl_KeepsHost(u) == RStripSlash(u)

\* channel_url.replace("m.youtube.com", "www.youtube.com").rstrip("/")
NormalizeUrl(u) ==
    RStripSlash([i \in 1..Len(u) |-> IF u[i] = "m.youtube.com" THEN "www.youtube.com" ELSE u[i]])

Truthy(q) == q # NoneQ /\ q # <<>>

StartsWithUC(q) == Len(q) >= 2 /\ q[1] = "U" /\ q[2] = "C"

CachePut(cache, key, id) ==
    [k \in DOMAIN cache \cup {key} |-> IF k = key THEN id ELSE cache[k]]

CacheHit_RawKey(url, cache) == url \in DOMAIN cache

\* a cache hit answers without running yt-dlp
CacheHit(url, cache) == NormalizeUrl(url) \in DOMAIN cache

\* The call on a cache miss, given what run() did:
\*   [k |-> "timeout"], [k |-> "rc", err |-> text] (non-zero exit),
\*   [k |-> "out", json |-> "bad"] or [k |-> "out", json |-> "ok", data |-> d]
\* Result: [kind |-> "ok", id, cache] or [kind |-> "raise", msg, cache]
ResolveMiss(url, cache, resp) ==
    LET key == NormalizeUrl(url)
    IN  IF resp.k = "timeout"
        THEN [kind |-> "raise", id |-> NoneQ, cache |-> cache,
              msg |-> TimeoutMessage("yt-dlp", <<key \o <<"/videos">>>>)]
        ELSE IF resp.k = "rc"
        THEN [kind |-> "raise", id |-> NoneQ, cache |-> cache,
              msg |-> ToolFailure("channel lookup failed(", resp.err)]
        ELSE IF resp.json = "bad"
        THEN [kind |-> "raise", id |-> NoneQ, cache |-> cache, msg |-> JsonDecodeMessage]
        ELSE LET channel_id == IF Truthy(resp.data.channel_id) THEN resp.data.channel_id
                               ELSE resp.data.uploader_id
             IN  IF ~Truthy(channel_id) \/ ~StartsWithUC(channel_id)
                 THEN [kind |-> "raise", id |-> NoneQ, cache |-> cache,
                       msg |-> <<Chunk("channel_id extraction failed", 16)>>]
                 ELSE [kind |-> "ok", id |-> channel_id,
                       cache |-> CachePut(cache, key, channel_id), msg |-> <<>>]

resolve_uc_id(url, cache, resp) ==
    IF CacheHit(url, cache)
    THEN [kind |-> "ok", id |-> cache[NormalizeUrl(url)], cache |-> cache, msg |-> <<>>]
    ELSE ResolveMiss(url, cache, resp)

make_channel_videos_url(uc_id) ==
    <<"https://www.youtube.com/channel/">> \o uc_id \o <<"/videos">>

\* ------------------------------------------------------------------------
\* transcribe_segments
\* ------------------------------------------------------------------------
IsSpace(c) == c = " " \/ c = "\n"

RECURSIVE LStrip(_)
LStrip(q) == IF q # <<>> /\ IsSpace(q[1]) THEN LStrip(Tail(q)) ELSE q

RECURSIVE RStrip(_)
RStrip(q) == IF q # <<>> /\ IsSpace(q[Len(q)]) THEN RStrip(SubSeq(q, 1, Len(q) - 1)) ELSE q

Strip(q) == LStrip(RStrip(q))

\* (result.get("text") or "").strip() of every segment, the empty ones dropped
RECURSIVE NonEmptyTexts(_)
NonEmptyTexts(outs) ==
    IF outs = <<>> THEN <<>>
    ELSE LET text == Strip(IF outs[1] = NoneQ THEN <<>> ELSE outs[1])
         IN  IF text # <<>> THEN <<text>> \o NonEmptyTexts(Tail(outs))
             ELSE NonEmptyTexts(Tail(outs))

RECURSIVE JoinLines(_)
JoinLines(texts) ==
    IF texts = <<>> THEN <<>>
    ELSE IF Len(texts) = 1 THEN texts[1]
    ELSE texts[1] \o <<"\n">> \o JoinLines(Tail(texts))

\* outs: what model.transcribe returned as "text" for each segment, in order
transcribe_segments(outs) == Strip(JoinLines(NonEmptyTexts(outs)))

TranscriptEmpty_OnlyNone(transcript) == transcript = NoneQ

\* `if not transcript`
TranscriptEmpty(transcript) == transcript = <<>>

\* ------------------------------------------------------------------------
\* ChannelResult and the assignments process_channel makes to it
\* ------------------------------------------------------------------------
ChannelResult(name, url) ==
    [channel |-> name, status |-> "FAILED", channel_url |-> url,
     uc_id |-> NoneQ, resolved_videos_url |-> NoneQ,
     video_url |-> NoneQ, video_title |-> NoneQ, upload_date |-> NoneQ,
     attempts |-> 0,
     failed_stage |-> NoneS, fail_label |-> NoneS, reason |-> NoneS,
     error_detail |-> NoneT,
     attempt_fail_logs |-> <<>>, transcript_chars |-> 0]

ResolveFailed_NoLabel(r, msg) ==
    [r EXCEPT !.status = "FAILED", !.failed_stage = "FETCH",
              !.reason = "UC ID resolution failed",
              !.error_detail = LastChars(msg, 800)]

\* step 1 failed
ResolveFailed(r, msg) ==
    [r EXCEPT !.status = "FAILED", !.failed_stage = "FETCH",
              !.fail_label = label_error(msg),
              !.reason = "UC ID resolution failed",
              !.error_detail = LastChars(msg, 800)]

Resolved(r, uc_id) ==
    [r EXCEPT !.uc_id = uc_id, !.resolved_videos_url = make_channel_videos_url(uc_id)]

\* step 2: no recent video
NoVideo(r) ==
    [r EXCEPT !.status = "NO_VIDEO", !.reason = "no upload within the last 24 hours"]

Picked(r, ret) ==
    [r EXCEPT !.video_url = ret.vurl, !.video_title = ret.title, !.upload_date = ret.udate]

ListFailed_AsNoVideo(r, msg) ==
    [r EXCEPT !.status = "NO_VIDEO", !.reason = "latest video lookup failed"]

\* step 2 failed
ListFailed(r, msg) ==
    [r EXCEPT !.status = "FAILED", !.failed_stage = "FETCH",
              !.fail_label = label_error(msg),
              !.reason = "latest video lookup failed",
              !.error_detail = LastChars(msg, 800)]

SuccessReason(attempts) ==
    IF attempts > 1
    THEN (CASE attempts = 2 -> "success (2 attempts in total)"
            [] attempts = 3 -> "success (3 attempts in total)"
            [] OTHER -> "success (n attempts in total)")
    ELSE "success"

Succeeded_ClearsLogs(r, transcript) ==
    [r EXCEPT !.status = "SUCCESS", !.transcript_chars = Len(transcript),
              !.failed_stage = NoneS, !.fail_label = NoneS,
              !.reason = SuccessReason(r.attempts), !.error_detail = NoneT,
              !.attempt_fail_logs = <<>>]

\* step 3: an attempt went through
Succeeded(r, transcript) ==
    [r EXCEPT !.status = "SUCCESS", !.transcript_chars = Len(transcript),
              !.failed_stage = NoneS, !.fail_label = NoneS,
              !.reason = SuccessReason(r.attempts), !.error_detail = NoneT]

\* the line appended to attempt_fail_logs by the except branch
AttemptLog(n, msg) ==
    LET sr == stage_reason_from_exception(msg)
    IN  [n |-> n, stage |-> sr[1], label |-> label_error(msg), reason |-> sr[2],
         detail |-> LastChars(msg, 220)]

NoFinal == [stage |-> NoneS, label |-> NoneS, reason |-> NoneS, detail |-> NoneT]

\* final_stage, final_label, final_reason, final_detail after a failed attempt
FinalOf(msg) ==
    LET sr == stage_reason_from_exception(msg)
    IN  [stage |-> sr[1], label |-> label_error(msg), reason |-> sr[2],
         detail |-> LastChars(msg, 800)]

\* `x or default`: x is None or empty
OrElseS(x, default) == IF x = NoneS \/ x = "" THEN default ELSE x

OrElseT(x, default) == IF x = NoneT \/ x = <<>> THEN default ELSE x

Exhausted_FirstRecord(r, fin) ==
    [r EXCEPT !.status = "FAILED",
              !.failed_stage = r.attempt_fail_logs[1].stage,
              !.fail_label = r.attempt_fail_logs[1].label,
              !.reason = r.attempt_fail_logs[1].reason,
              !.error_detail = OrElseT(fin.detail, <<Chunk("no error detail", 8)>>)]

\* after the loop: every attempt failed
Exhausted(r, fin) ==
    [r EXCEPT !.status = "FAILED",
              !.failed_stage = OrElseS(fin.stage, "UNKNOWN"),
              !.fail_label = OrElseS(fin.label, "UNKNOWN"),
              !.reason = OrElseS(fin.reason, "unknown failure"),
              !.error_detail = OrElseT(fin.detail, <<Chunk("no error detail", 8)>>)]

InRange_OneMore(attempt) == attempt < MAX_RETRIES + 2

\* `for attempt in range(MAX_RETRIES + 1)`: attempt is a value of the range
InRange(attempt) == attempt < MAX_RETRIES + 1

Sleeps_Always(attempt) == TRUE

\* `if attempt < MAX_RETRIES: time.sleep(3)`
Sleeps(attempt) == attempt < MAX_RETRIES

Attempted_ZeroBased(r, a) == [r EXCEPT !.attempts = a]

\* `res.attempts = attempt + 1` at the top of the loop body
Attempted(r, a) == [r EXCEPT !.attempts = a + 1]

NextStage_SkipsNormalize(stage) ==
    CASE stage = "download" -> "split"
      [] stage = "normalize" -> "split"
      [] stage = "split" -> "transcribe"
      [] OTHER -> "ret"

\* the statement that follows a stage of the try block when the stage did
\* not raise; after the transcription the function returns
NextStage(stage) ==
    CASE stage = "download" -> "normalize"
      [] stage = "normalize" -> "split"
      [] stage = "split" -> "transcribe"
      [] OTHER -> "ret"

\* ------------------------------------------------------------------------
\* The working directories AUDIODIR and SEGDIR
\* ------------------------------------------------------------------------
\* A file name is a sequence of tokens (characters or runs of characters).
\* A file is [dir, name, made]: made is the number of the attempt that wrote
\* it, a history tag the program does not see.
ForbiddenChars == {"\\", "/", ":", "*", "?", "\"", "<", ">", "|"}

RECURSIVE DropForbidden(_)
DropForbidden(q) ==
    IF q # <<>> /\ q[1] \in ForbiddenChars THEN DropForbidden(Tail(q)) ELSE q

\* re.sub(r"[\\/:*?\"<>|]+", "_", name)
RECURSIVE ReplaceForbidden(_)
ReplaceForbidden(q) ==
    IF q = <<>> THEN <<>>
    ELSE IF q[1] \in ForbiddenChars THEN <<"_">> \o ReplaceForbidden(DropForbidden(q))
    ELSE <<q[1]>> \o ReplaceForbidden(Tail(q))

\* re.sub(r"\s+", " ", name)
RECURSIVE CollapseSpaces(_)
CollapseSpaces(q) ==
    IF q = <<>> THEN <<>>
    ELSE IF IsSpace(q[1]) THEN <<" ">> \o CollapseSpaces(LStrip(q))
    ELSE <<q[1]>> \o CollapseSpaces(Tail(q))

safe_filename(name) ==
    LET n == Strip(CollapseSpaces(ReplaceForbidden(name)))
    IN  IF Len(n) > 120 THEN SubSeq(n, 1, 120) ELSE n

\* base = safe_filename(f"{name}_{res.upload_date or 'nodate'}")
BaseOf(r) ==
    safe_filename(<<r.channel, "_">>
                  \o (IF Truthy(r.upload_date) THEN r.upload_date ELSE <<"nodate">>))

File(dir, name, made) == [dir |-> dir, name |-> name, made |-> made]

PathOf(f) == [dir |-> f.dir, name |-> f.name]

NoPath == [dir |-> "", name |-> <<>>]

\* str.startswith, str.endswith
StartsWith(q, p) == Len(q) >= Len(p) /\ SubSeq(q, 1, Len(p)) = p

EndsWith(q, p) == Len(q) >= Len(p) /\ SubSeq(q, Len(q) - Len(p) + 1, Len(q)) = p

\* a tool writes the files new, replacing files of the same path
Write(files, new) ==
    {f \in files : \A g \in new : ~(g.dir = f.dir /\ g.name = f.name)} \cup new

RemoveLeftovers_AudioOnly(files, base) ==
    {f \in files : ~(f.dir = "audio" /\ StartsWith(f.name, base))}

\* the two loops at the top of every attempt: every file of AUDIODIR and of
\* SEGDIR whose name starts with base is removed (os.remove on a regular file
\* of a directory the run created itself)
RemoveLeftovers(files, base) == {f \in files : ~StartsWith(f.name, base)}

\* what yt-dlp writes under the template {out_base}.%(ext)s
AudioName(base) == base \o <<".", "webm">>

PartName(base) == base \o <<".", "webm", ".part">>

\* wav_path = os.path.join(AUDIODIR, f"{base}_clean.wav")
WavName(base) == base \o <<"_", "clean", ".wav">>

\* f"{prefix}_%03d.wav", the segments numbered from 0
SegName(base, k) == base \o <<"_", "0", "0", Digits[k + 1], ".wav">>

SegNo(name) == DigitVal(name[Len(name) - 1])

\* the files download_audio may return: `fn.startswith(out_base + ".")`
AudioFound(files, base) ==
    {f \in files : f.dir = "audio" /\ StartsWith(f.name, base \o <<".">>)}

\* the files split_wav lists in SEGDIR
SegFiles(files, base) ==
    {f \in files : /\ f.dir = "segments"
                   /\ StartsWith(f.name, base \o <<"_">>)
                   /\ EndsWith(f.name, <<".wav">>)}

\* sorted(...) of the listed segments
SortedSegs(S) ==
    CHOOSE q \in [1..Cardinality(S) -> S] :
        \A i, j \in 1..Cardinality(S) : i < j => SegNo(q[i].name) < SegNo(q[j].name)

\* `return segs if segs else [input_wav]`, as paths
SplitResult(files, base) ==
    LET S == SegFiles(files, base)
    IN  IF S # {} THEN [i \in 1..Cardinality(S) |-> PathOf(SortedSegs(S)[i])]
        ELSE <<[dir |-> "audio", name |-> WavName(base)]>>

\* ------------------------------------------------------------------------
\* The cache file UC_CACHE_PATH, inside WORKDIR
\* ------------------------------------------------------------------------
NoCacheFile == [exists |-> FALSE, data |-> [k \in {} |-> NoneQ]]

\* load_uc_cache: the content of the file, {} when there is none
load_uc_cache(file) == IF file.exists THEN file.data ELSE [k \in {} |-> NoneQ]

save_uc_cache(cache) == [exists |-> TRUE, data |-> cache]

\* ------------------------------------------------------------------------
\* The listings yt-dlp may answer with
\* ------------------------------------------------------------------------
Str2(n) == <<Digits[(n \div 10) + 1], Digits[(n % 10) + 1]>>

\* the string YYYYMMDD of a date of the model's year
DateStr(m, d) == <<"2", "0", "2", "5">> \o Str2(m) \o Str2(d)

Day1 == DateStr(3, 1)
Day2 == DateStr(3, 2)
Day3 == DateStr(3, 3)
BadCalendarDate == DateStr(2, 29)
NonDigitDate == <<"2", "0", "2", "5", "0", "3", "0", "x">>

\* the run takes place at 2025-03-03T00:00Z or one hour later
Clock0 == DaysFromCivil(2025, 3, 3) * 24

Clocks == {Clock0, Clock0 + 1}

Vid1 == <<"v", "1">>
Vid2 == <<"v", "2">>

NoEnd == 0 - 1

Entry(id, title, date, live, end) ==
    [id |-> id, title |-> title, upload_date |-> date, live |-> live, end |-> end]

\* plain uploads: every date shape with an id, no id, no title
PlainEntries ==
    {Entry(Vid1, <<"t">>, d, "NOT_LIVE", NoEnd) :
        d \in {NoneQ, NonDigitDate, BadCalendarDate, Day1, Day2, Day3}}
    \cup
    {Entry(x[1], x[2], d, "NOT_LIVE", NoEnd) :
        x \in {<<NoneQ, <<"t">>>>, <<Vid2, NoneQ>>}, d \in {Day2, Day3}}

\* live streams: running, announced, or ended (conclusion at 20:00 of the
\* upload day, or not reported)
LiveEntries ==
    {Entry(Vid1, <<"t">>, d, l, NoEnd) :
        d \in {Day2, Day3}, l \in {"LIVE_ONGOING", "LIVE_UPCOMING", "LIVE_ENDED"}}
    \cup
    {Entry(Vid1, <<"t">>, d, "LIVE_ENDED", parse_upload_date_yyyymmdd(d).h + 20) :
        d \in {Day2, Day3}}

Entries == PlainEntries \cup LiveEntries

StaleEntry == Entry(Vid1, <<"t">>, Day1, "NOT_LIVE", NoEnd)

\* what may follow a long run of stale uploads
LateEntries ==
    {Entry(Vid2, NoneQ, Day3, "NOT_LIVE", NoEnd),
     Entry(Vid1, <<"t">>, BadCalendarDate, "NOT_LIVE", NoEnd),
     Entry(Vid1, <<"t">>, Day3, "LIVE_ONGOING", NoEnd)}

SeqsUpTo(S, n) == UNION {[1..k -> S] : k \in 0..n}

\* a listing: up to MaxTail entries, or a run of 29 or 30 stale uploads
\* followed by up to MaxTail late entries
Listings ==
    SeqsUpTo(Entries, MaxTail)
    \cup
    {[i \in 1..k |-> StaleEntry] \o t :
        k \in {ListingCap - 1, ListingCap}, t \in SeqsUpTo(LateEntries, MaxTail)}

\* ------------------------------------------------------------------------
\* What the environment may answer
\* ------------------------------------------------------------------------
Err403 == <<Chunk("ERROR: HTTP Error 403: Forbidden", 32)>>

\* the same, followed by 600 characters of progress output
Err403Long == Err403 \o <<Chunk("filler", 600)>>

ErrFfmpeg == <<Chunk("ffmpeg: Invalid data found", 26)>>

WhisperError == <<Chunk("CUDA out of memory", 18)>>

UC1 == <<"U", "C", "1">>
UC2 == <<"U", "C", "2">>

\* metadata of the one-entry listing: channel_id, uploader_id
ChannelDatas ==
    {[channel_id |-> UC1, uploader_id |-> NoneQ],
     [channel_id |-> NoneQ, uploader_id |-> UC1],
     [channel_id |-> <<>>, uploader_id |-> <<"@", "a">>],
     [channel_id |-> NoneQ, uploader_id |-> NoneQ]}

\* the "text" of one segment's transcription
SegTexts == {NoneQ, <<" ">>, <<"a">>, <<" ", "a", "\n">>}

UrlA == <<"https://", "www.youtube.com", "/", "@a">>
UrlAMobile == <<"https://", "m.youtube.com", "/", "@a", "/", "/">>
UrlB == <<"https://", "www.youtube.com", "/", "@b">>

\* CHANNELS.items(): <<name, url>> in insertion order
ChannelsSame == <<[name |-> "A", url |-> UrlA], [name |-> "A2", url |-> UrlAMobile]>>
ChannelsTwice == <<[name |-> "A", url |-> UrlAMobile], [name |-> "A2", url |-> UrlAMobile]>>
ChannelsTwo == <<[name |-> "A", url |-> UrlA], [name |-> "B", url |-> UrlB]>>
ChannelsOne == <<[name |-> "A", url |-> UrlAMobile]>>

\* every answer of the model
FullEnv ==
    [listings |-> Listings,
     errs     |-> {Err403Long, ErrFfmpeg},
     datas    |-> ChannelDatas,
     texts    |-> SegTexts,
     founds   |-> {0, 1, 2},
     partials |-> {FALSE, TRUE},
     faults   |-> {"timeout", "rc", "badjson", "nofile", "raise"}]

\* a run with few kinds of failure
SmallEnv ==
    [listings |-> {<<>>, <<Entry(Vid1, <<"t">>, Day3, "NOT_LIVE", NoEnd)>>,
                   <<Entry(Vid1, <<"t">>, BadCalendarDate, "NOT_LIVE", NoEnd)>>},
     errs     |-> {Err403},
     datas    |-> {[channel_id |-> UC1, uploader_id |-> NoneQ],
                   [channel_id |-> NoneQ, uploader_id |-> UC2],
                   [channel_id |-> NoneQ, uploader_id |-> NoneQ]},
     texts    |-> {<<" ">>, <<"a">>},
     founds   |-> {1},
     partials |-> {TRUE},
     faults   |-> {"rc"}]

\* the answers of the environment named e
Env(e) == IF e = "full" THEN FullEnv ELSE SmallEnv

\* what run() may do for a tool call
RunOutcomes(e) ==
    (IF "timeout" \in Env(e).faults THEN {[k |-> "timeout"]} ELSE {})
    \cup (IF "rc" \in Env(e).faults THEN {[k |-> "rc", err |-> x] : x \in Env(e).errs} ELSE {})
    \cup {[k |-> "ok"]}

\* ------------------------------------------------------------------------
\* Effective time, as the design states it (the code reads upload_date only)
\* ------------------------------------------------------------------------
Unfinished(e) == e.live \in {"LIVE_ONGOING", "LIVE_UPCOMING"}

\* conclusion instant of an ended stream, publish instant otherwise;
\* [has |-> FALSE] when it cannot be determined
EffectiveTime(e) ==
    IF e.live = "LIVE_ENDED"
    THEN [has |-> e.end # NoEnd, h |-> e.end]
    ELSE LET p == parse_upload_date_yyyymmdd(e.upload_date)
         IN  IF p.kind = "dt" THEN [has |-> TRUE, h |-> p.h] ELSE [has |-> FALSE, h |-> 0]

InsideWindow(e, now) ==
    EffectiveTime(e).has /\ now - EffectiveTime(e).h <= RECENT_HOURS

Eligible(e, now) == HasId(e) /\ ~Unfinished(e) /\ InsideWindow(e, now)

\* ------------------------------------------------------------------------
\* State
\* ------------------------------------------------------------------------
VARIABLES
    clock,      \* utc_now(), in hours
    listing,    \* the selector alone: the entries it is given
    sel,        \* the selector alone: its scan result and returned tuple
    channels,   \* CHANNELS.items()
    env,        \* which answers the tools may give in this run: "full", "small"
    pc,         \* where main / process_channel stands
    idx,        \* position of the for loop of main in channels
    uc_cache,   \* the dict uc_cache
    res,        \* the ChannelResult of the channel being processed
    attempt,    \* loop variable of the retry loop
    final,      \* final_stage, final_label, final_reason, final_detail
    audio_path, \* the path download_audio returned
    segs,       \* the segments split_wav returned
    results,    \* the list results of main
    fs,         \* the files of AUDIODIR and SEGDIR
    disk,       \* the file UC_CACHE_PATH
    run,        \* number of the run of main
    saved,      \* history: the cache file as the previous run left it
    calls,      \* history: tool calls made for the current channel
    hist,       \* history: where each attempt of the current channel ended: the
                \* stage that raised, or what the transcription gave ("blank", "text")
    raised,     \* history: what ended each attempt: "timeout", "rc", "nofile",
                \* "whisper", "empty", or "none" for an attempt that went through
    ran,        \* history: the stages started in the latest attempt, in order
    obs,        \* history: what resolution and listing of the current channel gave
    lookups     \* history: network lookups of resolve_uc_id in this run, per key

selVars == <<listing, sel>>
runVars == <<channels, env, pc, idx, uc_cache, res, attempt, final, audio_path, segs,
             results, fs, disk, run, saved, calls, hist, raised, ran, obs, lookups>>
vars == <<clock, selVars, runVars>>

NoCalls == [resolve |-> 0, list |-> 0, download |-> 0, normalize |-> 0,
            split |-> 0, transcribe |-> 0, sleep |-> 0]

NoObs == [resolve |-> "none", list |-> "none", allOutside |-> FALSE, anyMatch |-> FALSE]

Keys == {NormalizeUrl(UrlA), NormalizeUrl(UrlB)}

EmptyCache == [k \in {} |-> NoneQ]

IdleSel == [kind |-> "idle", idx |-> 0, ret |-> PickResult(<<>>, [kind |-> "none"])]

IdleRun ==
    /\ channels = <<>>
    /\ env = "small"
    /\ pc = "off"
    /\ idx = 0
    /\ uc_cache = EmptyCache
    /\ res = ChannelResult("", <<>>)
    /\ attempt = 0
    /\ final = NoFinal
    /\ audio_path = NoPath
    /\ segs = <<>>
    /\ results = <<>>
    /\ fs = {}
    /\ disk = NoCacheFile
    /\ run = 1
    /\ saved = NoCacheFile
    /\ calls = NoCalls
    /\ hist = <<>>
    /\ raised = <<>>
    /\ ran = <<>>
    /\ obs = NoObs
    /\ lookups = [k \in Keys |-> 0]

\* ------------------------------------------------------------------------
\* The selector alone, on every listing
\* ------------------------------------------------------------------------
InitSel ==
    /\ clock \in Clocks
    /\ listing \in Listings
    /\ sel = IdleSel
    /\ IdleRun

SelPick ==
    /\ sel.kind = "idle"
    /\ pc = "off"
    /\ LET scan == PickScan(listing, clock)
       IN  sel' = [kind |-> scan.kind, idx |-> scan.idx, ret |-> PickResult(listing, scan)]
    /\ UNCHANGED <<clock, listing, runVars>>

NextSel == SelPick

SpecSel == InitSel /\ [][NextSel]_vars


\* ------------------------------------------------------------------------
\* main and process_channel
\* ------------------------------------------------------------------------
\* the first run of main: whatever an earlier run left in the work directory
\* is removed by Start before anything reads it
InitRun(cfgs, e) ==
    /\ clock = Clock0
    /\ listing = <<>>
    /\ sel = IdleSel
    /\ channels \in cfgs
    /\ env = e
    /\ pc = "start"
    /\ idx = 0
    /\ uc_cache = EmptyCache
    /\ res = ChannelResult("", <<>>)
    /\ attempt = 0
    /\ final = NoFinal
    /\ audio_path = NoPath
    /\ segs = <<>>
    /\ results = <<>>
    /\ fs = {}
    /\ disk = NoCacheFile
    /\ run = 1
    /\ saved = NoCacheFile
    /\ calls = NoCalls
    /\ hist = <<>>
    /\ raised = <<>>
    /\ ran = <<>>
    /\ obs = NoObs
    /\ lookups = [k \in Keys |-> 0]

\* entry of process_channel for the channel at position i: res is created,
\* the locals are initialised
Enter(i) ==
    /\ idx' = i
    /\ res' = ChannelResult(channels[i].name, channels[i].url)
    /\ attempt' = 0
    /\ final' = NoFinal
    /\ audio_path' = NoPath
    /\ segs' = <<>>
    /\ calls' = NoCalls
    /\ hist' = <<>>
    /\ raised' = <<>>
    /\ ran' = <<>>
    /\ obs' = NoObs
    /\ pc' = "resolve"

\* shutil.rmtree(WORKDIR): the audio files, the segments and the cache file
\* are all below WORKDIR
rmtree_files(files) == {}

rmtree_cache(file) == NoCacheFile

\* main, up to the first iteration of its loop: the work directory is
\* removed and created again, then the cache is loaded
Start ==
    /\ pc = "start"
    /\ fs' = rmtree_files(fs)
    /\ disk' = rmtree_cache(disk)
    /\ uc_cache' = load_uc_cache(rmtree_cache(disk))
    /\ IF channels = <<>>
       THEN /\ pc' = "save"
            /\ UNCHANGED <<idx, res, attempt, final, audio_path, segs, calls, hist,
                           raised, ran, obs>>
       ELSE Enter(1)
    /\ UNCHANGED <<clock, selVars, channels, env, results, run, saved, lookups>>

\* step 1 of process_channel
Resolve ==
    /\ pc = "resolve"
    /\ \E resp \in
            IF CacheHit(res.channel_url, uc_cache) THEN {[k |-> "hit"]}
            ELSE (IF "timeout" \in Env(env).faults THEN {[k |-> "timeout"]} ELSE {})
                 \cup {[k |-> "rc", err |-> x] : x \in Env(env).errs}
                 \cup (IF "badjson" \in Env(env).faults THEN {[k |-> "out", json |-> "bad"]} ELSE {})
                 \cup {[k |-> "out", json |-> "ok", data |-> d] : d \in Env(env).datas} :
          LET r == resolve_uc_id(res.channel_url, uc_cache, resp)
              n == IF resp.k = "hit" THEN 0 ELSE 1
              key == NormalizeUrl(res.channel_url)
          IN  /\ uc_cache' = r.cache
              /\ calls' = [calls EXCEPT !.resolve = @ + n]
              /\ lookups' = [lookups EXCEPT ![key] = @ + n]
              /\ obs' = [obs EXCEPT !.resolve = IF resp.k = "hit" THEN "hit"
                                                ELSE IF r.kind = "ok" THEN "ok" ELSE "error"]
              /\ IF r.kind = "ok"
                 THEN /\ res' = Resolved(res, r.id)
                      /\ pc' = "pick"
                 ELSE /\ res' = ResolveFailed(res, r.msg)
                      /\ pc' = "ret"
    /\ UNCHANGED <<clock, selVars, channels, env, idx, attempt, final, audio_path, segs,
                   results, fs, disk, run, saved, hist, raised, ran>>

\* every entry's effective time is outside the window or cannot be determined
AllOutside(entries, now) ==
    \A i \in 1..Len(entries) : ~InsideWindow(entries[i], now)

\* some entry the scan reaches has an id and a date inside the window
AnyMatch(entries, now) ==
    \E i \in 1..Min2(Len(entries), ListingCap) : EntryMatches(entries[i], now)

\* step 2 of process_channel: pick_latest_video and what follows it
Pick ==
    /\ pc = "pick"
    /\ calls' = [calls EXCEPT !.list = @ + 1]
    /\ \E resp \in
            (IF "timeout" \in Env(env).faults THEN {[k |-> "timeout"]} ELSE {})
            \cup {[k |-> "rc", err |-> x] : x \in Env(env).errs}
            \cup (IF "badjson" \in Env(env).faults THEN {[k |-> "out", json |-> "bad"]} ELSE {})
            \cup {[k |-> "out", json |-> "ok", entries |-> l] : l \in Env(env).listings} :
          IF resp.k = "out" /\ resp.json = "ok"
          THEN LET scan == PickScan(resp.entries, clock)
               IN  /\ obs' = [obs EXCEPT !.list = "listed",
                                         !.allOutside = AllOutside(resp.entries, clock),
                                         !.anyMatch = AnyMatch(resp.entries, clock)]
                   /\ IF scan.kind = "found"
                      THEN /\ res' = Picked(res, PickResult(resp.entries, scan))
                           /\ pc' = "download"
                      ELSE IF scan.kind = "none"
                      THEN /\ res' = NoVideo(res)
                           /\ pc' = "ret"
                      ELSE /\ res' = ListFailed(res,
                                       <<Chunk("time data does not match format", 31)>>)
                           /\ pc' = "ret"
          ELSE /\ obs' = [obs EXCEPT !.list = "error"]
               /\ res' = ListFailed(res,
                           IF resp.k = "timeout"
                           THEN TimeoutMessage("yt-dlp", <<res.resolved_videos_url>>)
                           ELSE IF resp.k = "rc"
                           THEN ToolFailure("yt-dlp channel lookup failed(", resp.err)
                           ELSE JsonDecodeMessage)
               /\ pc' = "ret"
    /\ UNCHANGED <<clock, selVars, channels, env, idx, uc_cache, attempt, final,
                   audio_path, segs, results, fs, disk, run, saved, hist, raised, ran,
                   lookups>>

\* the except branch of the retry loop and what follows it, for the message
\* msg raised while res had the value r; ended names the stage that raised,
\* kind what made it raise
AttemptFailed(r, msg, ended, kind) ==
    LET logged == [r EXCEPT !.attempt_fail_logs = Append(@, AttemptLog(attempt + 1, msg))]
        fin == FinalOf(msg)
    IN  /\ final' = fin
        /\ hist' = Append(hist, ended)
        /\ raised' = Append(raised, kind)
        /\ IF InRange(attempt + 1)
           THEN /\ attempt' = attempt + 1
                /\ res' = logged
                /\ pc' = "download"
           ELSE /\ attempt' = attempt
                /\ res' = Exhausted(logged, fin)
                /\ pc' = "ret"

CountSleep(c) == IF Sleeps(attempt) THEN [c EXCEPT !.sleep = @ + 1] ELSE c

\* what a tool that failed leaves behind: nothing, or the file it was writing
Partial(e, f) == {{}} \cup (IF TRUE \in Env(e).partials THEN {{f}} ELSE {})

\* top of the loop body: the attempt is counted, leftovers are removed,
\* download_audio runs
Download ==
    /\ pc = "download"
    /\ ran' = <<"download">>
    /\ LET r == Attempted(res, attempt)
           base == BaseOf(res)
           kept == RemoveLeftovers(fs, base)
       IN  \E o \in RunOutcomes(env) \cup
                    (IF "nofile" \in Env(env).faults THEN {[k |-> "nofile"]} ELSE {}) :
             IF o.k \in {"ok", "nofile"}
             THEN LET files == IF o.k = "ok"
                               THEN Write(kept, {File("audio", AudioName(base), attempt + 1)})
                               ELSE kept
                  IN  /\ fs' = files
                      /\ IF AudioFound(files, base) # {}
                         THEN /\ \E f \in AudioFound(files, base) : audio_path' = PathOf(f)
                              /\ res' = r
                              /\ pc' = NextStage("download")
                              /\ calls' = [calls EXCEPT !.download = @ + 1]
                              /\ UNCHANGED <<attempt, final, segs, hist, raised>>
                         ELSE /\ calls' = CountSleep([calls EXCEPT !.download = @ + 1])
                              /\ AttemptFailed(r,
                                    <<Chunk("audio file was not created(FILE_NOT_FOUND)", 31)>>,
                                    "download", "nofile")
                              /\ UNCHANGED <<audio_path, segs>>
             ELSE /\ \E left \in Partial(env, File("audio", PartName(base), attempt + 1)) :
                        fs' = Write(kept, left)
                  /\ calls' = CountSleep([calls EXCEPT !.download = @ + 1])
                  /\ AttemptFailed(r,
                        IF o.k = "timeout"
                        THEN TimeoutMessage("yt-dlp", <<AudioName(base), r.video_url>>)
                        ELSE ToolFailure("audio download failed(", o.err),
                        "download", o.k)
                  /\ UNCHANGED <<audio_path, segs>>
    /\ UNCHANGED <<clock, selVars, channels, env, idx, uc_cache, results, disk, run,
                   saved, obs, lookups>>

Normalize ==
    /\ pc = "normalize"
    /\ ran' = Append(ran, "normalize")
    /\ LET wav == File("audio", WavName(BaseOf(res)), attempt + 1)
       IN  \E o \in RunOutcomes(env) :
             IF o.k = "ok"
             THEN /\ fs' = Write(fs, {wav})
                  /\ pc' = NextStage("normalize")
                  /\ calls' = [calls EXCEPT !.normalize = @ + 1]
                  /\ UNCHANGED <<res, attempt, final, hist, raised>>
             ELSE /\ \E left \in Partial(env, wav) : fs' = Write(fs, left)
                  /\ calls' = CountSleep([calls EXCEPT !.normalize = @ + 1])
                  /\ AttemptFailed(res,
                        IF o.k = "timeout"
                        THEN TimeoutMessage("ffmpeg", <<audio_path.name, wav.name>>)
                        ELSE ToolFailure("ffmpeg normalize failed(", o.err),
                        "normalize", o.k)
    /\ UNCHANGED <<clock, selVars, channels, env, idx, uc_cache, audio_path, segs, results,
                   disk, run, saved, obs, lookups>>

\* the segments ffmpeg writes when it cuts the waveform into n pieces
SegsWritten(base, n, made) == {File("segments", SegName(base, k), made) : k \in 0..(n - 1)}

Split ==
    /\ pc = "split"
    /\ ran' = Append(ran, "split")
    /\ LET base == BaseOf(res)
       IN  \E o \in RunOutcomes(env) :
             IF o.k = "ok"
             THEN /\ \E n \in Env(env).founds :
                        LET files == Write(fs, SegsWritten(base, n, attempt + 1))
                        IN  /\ fs' = files
                            /\ segs' = SplitResult(files, base)
                  /\ pc' = NextStage("split")
                  /\ calls' = [calls EXCEPT !.split = @ + 1]
                  /\ UNCHANGED <<res, attempt, final, hist, raised>>
             ELSE /\ \E left \in Partial(env, File("segments", SegName(base, 0), attempt + 1)) :
                        fs' = Write(fs, left)
                  /\ calls' = CountSleep([calls EXCEPT !.split = @ + 1])
                  /\ AttemptFailed(res,
                        IF o.k = "timeout"
                        THEN TimeoutMessage("ffmpeg", <<WavName(base), base>>)
                        ELSE ToolFailure("ffmpeg split failed(", o.err),
                        "split", o.k)
                  /\ UNCHANGED segs
    /\ UNCHANGED <<clock, selVars, channels, env, idx, uc_cache, audio_path, results,
                   disk, run, saved, obs, lookups>>

\* a transcription output with no character other than white space
IsBlank(q) == q = NoneQ \/ \A i \in 1..Len(q) : q[i] \in {" ", "\n"}

AllBlank(outs) == \A i \in 1..Len(outs) : IsBlank(outs[i])

\* transcribe_segments, the emptiness check, and the success branch
Transcribe ==
    /\ pc = "transcribe"
    /\ ran' = Append(ran, "transcribe")
    /\ \/ /\ "raise" \in Env(env).faults
          /\ calls' = CountSleep([calls EXCEPT !.transcribe = @ + 1])
          /\ AttemptFailed(res, WhisperError, "transcribe", "whisper")
       \/ \E outs \in [1..Len(segs) -> Env(env).texts] :
             LET transcript == transcribe_segments(outs)
             IN  IF TranscriptEmpty(transcript)
                 THEN /\ calls' = CountSleep([calls EXCEPT !.transcribe = @ + Len(segs)])
                      /\ AttemptFailed(res,
                            <<Chunk("Whisper result text is empty(WHISPER_EMPTY)", 34)>>,
                            IF AllBlank(outs) THEN "blank" ELSE "text", "empty")
                 ELSE /\ calls' = [calls EXCEPT !.transcribe = @ + Len(segs)]
                      /\ res' = Succeeded(res, transcript)
                      /\ hist' = Append(hist, IF AllBlank(outs) THEN "blank" ELSE "text")
                      /\ raised' = Append(raised, "none")
                      /\ pc' = NextStage("transcribe")
                      /\ UNCHANGED <<attempt, final>>
    /\ UNCHANGED <<clock, selVars, channels, env, idx, uc_cache, audio_path, segs, results,
                   fs, disk, run, saved, obs, lookups>>

Continues_UnlessFailed(r, i) == i < Len(channels) /\ r.status # "FAILED"

\* the for loop of main has another channel after position i, whatever the
\* result r of the channel at i
Continues(r, i) == i < Len(channels)

\* process_channel returned r: main appends it and goes on with the next
\* channel, or leaves the loop
Return ==
    /\ pc = "ret"
    /\ results' = Append(results, res)
    /\ IF Continues(res, idx)
       THEN Enter(idx + 1)
       ELSE /\ pc' = "save"
            /\ UNCHANGED <<idx, res, attempt, final, audio_path, segs, calls, hist,
                           raised, ran, obs>>
    /\ UNCHANGED <<clock, selVars, channels, env, uc_cache, fs, disk, run, saved, lookups>>

\* save_uc_cache and the end of main
Save ==
    /\ pc = "save"
    /\ disk' = save_uc_cache(uc_cache)
    /\ pc' = "done"
    /\ UNCHANGED <<clock, selVars, channels, env, idx, uc_cache, res, attempt, final,
                   audio_path, segs, results, fs, run, saved, calls, hist, raised, ran,
                   obs, lookups>>

Next == Start \/ Resolve \/ Pick \/ Download \/ Normalize \/ Split \/ Transcribe
        \/ Return \/ Save

\* a whole run over two channels, with few kinds of failure
Init == InitRun({ChannelsSame, ChannelsTwice, ChannelsTwo}, "small")

Spec == Init /\ [][Next]_vars

\* one channel, with every kind of failure
InitChan == InitRun({ChannelsOne}, "full")

SpecChan == InitChan /\ [][Next]_vars

\* the job is started again: a new process, the work directory as the
\* previous run left it
Restart ==
    /\ pc = "done"
    /\ run < MaxRuns
    /\ run' = run + 1
    /\ saved' = disk
    /\ pc' = "start"
    /\ idx' = 0
    /\ uc_cache' = EmptyCache
    /\ res' = ChannelResult("", <<>>)
    /\ attempt' = 0
    /\ final' = NoFinal
    /\ audio_path' = NoPath
    /\ segs' = <<>>
    /\ results' = <<>>
    /\ calls' = NoCalls
    /\ hist' = <<>>
    /\ raised' = <<>>
    /\ ran' = <<>>
    /\ obs' = NoObs
    /\ lookups' = [k \in Keys |-> 0]
    /\ UNCHANGED <<clock, selVars, channels, env, fs, disk>>

NextRuns == Next \/ Restart

\* successive runs of main over one channel
InitRuns == InitRun({ChannelsOne}, "small")

SpecRuns == InitRuns /\ [][NextRuns]_vars

\* ------------------------------------------------------------------------
\* Claims about the selector (SpecSel)
\* ------------------------------------------------------------------------
\* the eligible entries among those the selector looks at
EligibleIdx ==
    {i \in 1..Min2(Len(listing), ListingCap) : Eligible(listing[i], clock)}

\* the eligible entry with the latest effective time, the earliest in listing
\* order among equals
BestIdx ==
    CHOOSE i \in EligibleIdx :
        \A j \in EligibleIdx :
            \/ EffectiveTime(listing[j]).h < EffectiveTime(listing[i]).h
            \/ (EffectiveTime(listing[j]).h = EffectiveTime(listing[i]).h /\ i <= j)

\* C1: the selector never returns an entry whose live state is LIVE_ONGOING
\* or LIVE_UPCOMING, whatever the listing.
C1_NeverUnfinishedLive ==
    sel.kind = "found" => ~Unfinished(listing[sel.idx])

\* C2: when the listing has an eligible entry, the selector returns the
\* eligible entry with the maximum effective time, ties going to the entry
\* earlier in the listing.
C2_ReturnsLatestEligible ==
    (sel.kind # "idle" /\ EligibleIdx # {}) => (sel.kind = "found" /\ sel.idx = BestIdx)

\* ------------------------------------------------------------------------
\* Claims about process_channel (SpecChan) and the whole run (Spec)
\* ------------------------------------------------------------------------
Returned == pc = "ret"

NonEmptyS(x) == x # NoneS /\ x # ""

\* the attempts of the current channel that did not go through
FailedAttempts == {i \in 1..Len(hist) : hist[i] # "text"}

\* C3: when the listing request succeeds and every entry's effective time is
\* outside the window or undeterminable, the channel ends NO_VIDEO with no
\* attempt, no failure stage and no attempt record; and NO_VIDEO is produced
\* only then, never when the listing request failed.
C3_NoVideoIffNothingRecent ==
    /\ (Returned /\ obs.list = "listed" /\ obs.allOutside)
          => /\ res.status = "NO_VIDEO"
             /\ res.attempts = 0
             /\ res.failed_stage = NoneS
             /\ res.attempt_fail_logs = <<>>
    /\ (Returned /\ res.status = "NO_VIDEO")
          => (obs.list = "listed" /\ obs.allOutside)

\* C4: a pipeline that fails on every attempt is tried exactly 1 + MAX_RETRIES
\* times, and the channel ends FAILED with that many attempt records.
C4_ExactlyAllAttempts ==
    /\ calls.download <= 1 + MAX_RETRIES
    /\ Len(hist) <= 1 + MAX_RETRIES
    /\ (Returned /\ hist # <<>> /\ FailedAttempts = 1..Len(hist))
          => /\ Len(hist) = 1 + MAX_RETRIES
             /\ calls.download = 1 + MAX_RETRIES
             /\ res.attempts = 1 + MAX_RETRIES
             /\ res.status = "FAILED"
             /\ Len(res.attempt_fail_logs) = 1 + MAX_RETRIES

\* three failed attempts at three different stages
C4_Witness ==
    /\ Returned
    /\ hist = <<"download", "split", "blank">>
    /\ res.status = "FAILED"
    /\ Len(res.attempt_fail_logs) = 3

\* C5: when attempts 1 and 2 fail and attempt 3 goes through, the channel ends
\* SUCCESS, the two failures are kept as attempt records, nothing more is
\* attempted, and no failed stage, label or error detail is in the result.
C5_SuccessOnThirdAttempt ==
    /\ pc \in {"download", "normalize", "split", "transcribe"}
          => \A i \in 1..Len(hist) : hist[i] # "text"
    /\ (Returned /\ Len(hist) = 3 /\ FailedAttempts = {1, 2})
          => /\ res.status = "SUCCESS"
             /\ Len(res.attempt_fail_logs) = 2
             /\ res.attempt_fail_logs[1].n = 1
             /\ res.attempt_fail_logs[2].n = 2
             /\ res.attempts = 3
             /\ calls.download = 3
             /\ res.failed_stage = NoneS
             /\ res.fail_label = NoneS
             /\ res.error_detail = NoneT

C5_Witness ==
    /\ Returned
    /\ hist = <<"download", "normalize", "text">>
    /\ res.status = "SUCCESS"
    /\ res.transcript_chars = 3

\* C6: resolving the same reference twice against the same cache gives the
\* same id both times with at most one network lookup in total; after a
\* first successful resolution the second call is a cache hit without lookup.
C6_SameReferenceOneLookup ==
    (idx = 2 /\ pc # "resolve" /\ channels[1].url = channels[2].url)
       => /\ (Truthy(results[1].uc_id) /\ Truthy(res.uc_id))
                => /\ res.uc_id = results[1].uc_id
                   /\ lookups[NormalizeUrl(channels[2].url)] <= 1
          /\ Truthy(results[1].uc_id)
                => (obs.resolve = "hit" /\ calls.resolve = 0)

C6_Witness ==
    /\ idx = 2
    /\ pc = "pick"
    /\ channels = ChannelsTwice
    /\ obs.resolve = "hit"
    /\ results[1].uc_id = UC2
    /\ res.uc_id = UC2
    /\ lookups[NormalizeUrl(UrlAMobile)] = 1

\* C7: when the transcription of every segment is blank on every attempt, the
\* channel ends FAILED after exactly 1 + MAX_RETRIES attempts, classified
\* WHISPER_EMPTY at stage TRANSCRIBE; a SUCCESS always has at least one
\* transcript character and never follows a blank transcription.
C7_BlankTranscriptNeverSucceeds ==
    /\ (Returned /\ hist # <<>> /\ \A i \in 1..Len(hist) : hist[i] = "blank")
          => /\ res.status = "FAILED"
             /\ Len(hist) = 1 + MAX_RETRIES
             /\ res.attempts = 1 + MAX_RETRIES
             /\ res.failed_stage = "TRANSCRIBE"
             /\ res.fail_label = "WHISPER_EMPTY"
    /\ \A i \in 1..Len(hist) :
          hist[i] = "blank"
             => /\ i <= Len(res.attempt_fail_logs)
                /\ res.attempt_fail_logs[i].stage = "TRANSCRIBE"
                /\ res.attempt_fail_logs[i].label = "WHISPER_EMPTY"
    /\ res.status = "SUCCESS"
          => (res.transcript_chars >= 1 /\ hist[Len(hist)] = "text")

C7_Witness ==
    /\ Returned
    /\ hist = <<"blank", "blank", "blank">>
    /\ calls.transcribe = 6
    /\ res.status = "FAILED"
    /\ res.fail_label = "WHISPER_EMPTY"

\* no stage of the pipeline ran for the current channel
NoPipeline ==
    /\ res.attempts = 0
    /\ calls.download = 0 /\ calls.normalize = 0 /\ calls.split = 0
    /\ calls.transcribe = 0 /\ calls.sleep = 0
    /\ res.attempt_fail_logs = <<>>
    /\ hist = <<>>

FailedAtFetch ==
    /\ res.status = "FAILED"
    /\ res.failed_stage = "FETCH"
    /\ NonEmptyS(res.fail_label)
    /\ NonEmptyS(res.reason)

\* C8: a failure of the resolution or of the listing request ends the channel
\* at once: the lookup was issued exactly once, no stage of the pipeline ran,
\* and the result is FAILED at stage FETCH with a label and a reason.
C8_LookupFailureAborts ==
    /\ (obs.resolve = "error" \/ obs.list = "error") => pc \in {"ret", "save", "done"}
    /\ obs.resolve = "error"
          => (calls.resolve = 1 /\ calls.list = 0 /\ NoPipeline /\ FailedAtFetch)
    /\ obs.list = "error"
          => (calls.list = 1 /\ calls.resolve <= 1 /\ NoPipeline /\ FailedAtFetch)

C8_Witness ==
    /\ Returned
    /\ obs.resolve = "ok"
    /\ obs.list = "error"
    /\ res.fail_label = "UNKNOWN"
    /\ calls.list = 1

\* C9: the run gives exactly one result per configured channel, in
\* configuration order, whatever the results are; a channel is processed only
\* when all channels before it have their result.
C9_OneResultPerChannelInOrder ==
    /\ Len(results) <= Len(channels)
    /\ \A i \in 1..Len(results) : results[i].channel = channels[i].name
    /\ pc \in {"resolve", "pick", "download", "normalize", "split", "transcribe", "ret"}
          => (Len(results) = idx - 1 /\ res.channel = channels[idx].name)
    /\ pc \in {"save", "done"} => Len(results) = Len(channels)

\* the first channel exhausts its retries, the second succeeds
C9_Witness ==
    /\ pc = "done"
    /\ Len(results) = 2
    /\ results[1].status = "FAILED"
    /\ results[1].attempts = 3
    /\ results[2].status = "SUCCESS"

\* C10 as stated: every result that is not SUCCESS has a non-empty reason and
\* a non-empty failure label.
C10_EveryNonSuccessLabelled ==
    (Returned /\ res.status # "SUCCESS")
       => (NonEmptyS(res.reason) /\ NonEmptyS(res.fail_label))

\* C10: every FAILED result has a non-empty reason and a non-empty failure
\* label; a NO_VIDEO result has a non-empty reason and no failure label.
C10_FailedLabelledNoVideoReasonOnly ==
    Returned
       => /\ res.status = "FAILED"
                => (NonEmptyS(res.reason) /\ NonEmptyS(res.fail_label))
          /\ res.status = "NO_VIDEO"
                => (NonEmptyS(res.reason) /\ res.fail_label = NoneS)

C10_Witness ==
    /\ Returned
    /\ res.status = "FAILED"
    /\ obs.resolve = "error"
    /\ res.fail_label = "TIMEOUT"
    /\ res.reason = "UC ID resolution failed"

\* ------------------------------------------------------------------------
\* Claims about the stages of an attempt (SpecChan)
\* ------------------------------------------------------------------------
StageOrder == <<"download", "normalize", "split", "transcribe">>

\* the stage an attempt ended in, from its entry in hist
StageOf(h) == IF h \in {"blank", "text"} THEN "transcribe" ELSE h

InPipeline == pc \in {"normalize", "split", "transcribe"}

\* the latest attempt is over and it failed
LatestFailed ==
    /\ pc \in {"download", "ret"}
    /\ raised # <<>>
    /\ raised[Len(raised)] # "none"

\* C11: in every attempt the stages start in the order download, normalize,
\* split, transcribe, each one only after the stages before it went through
\* in the same attempt; the stage that fails is the last one of its attempt;
\* SUCCESS is reached only by an attempt in which all four stages ran.
C11_StagesInOrder ==
    /\ Len(ran) <= Len(StageOrder)
    /\ \A i \in 1..Len(ran) : ran[i] = StageOrder[i]
    /\ pc = "normalize" => ran = <<"download">>
    /\ pc = "split" => ran = <<"download", "normalize">>
    /\ pc = "transcribe" => ran = <<"download", "normalize", "split">>
    /\ LatestFailed => ran[Len(ran)] = StageOf(hist[Len(hist)])
    /\ res.status = "SUCCESS" => ran = StageOrder
    /\ calls.normalize <= calls.download
    /\ calls.split <= calls.normalize

\* the second attempt stopped at the split, the third went through all stages
C11_Witness ==
    /\ Returned
    /\ res.status = "SUCCESS"
    /\ hist = <<"normalize", "split", "text">>
    /\ ran = StageOrder
    /\ calls.download = 3
    /\ calls.normalize = 3
    /\ calls.split = 2

\* the files at a path
FileAt(path) == {f \in fs : f.dir = path.dir /\ f.name = path.name}

\* the file at the path exists and was written by the current attempt
Fresh(path) == FileAt(path) # {} /\ \A f \in FileAt(path) : f.made = attempt + 1

IsPrefix(p, q) == Len(p) <= Len(q) /\ SubSeq(q, 1, Len(p)) = p

\* every attempt of the current channel failed and the loop is over
RetriesExhausted ==
    /\ Returned
    /\ hist # <<>>
    /\ \A i \in 1..Len(raised) : raised[i] # "none"

C13_LastAttemptSurfaces ==
    /\ \A i \in 1..Len(res.attempt_fail_logs) : res.attempt_fail_logs[i].n = i
    /\ RetriesExhausted
          => /\ res.status = "FAILED"
             /\ Len(res.attempt_fail_logs) = 1 + MAX_RETRIES
             /\ res.failed_stage = res.attempt_fail_logs[1 + MAX_RETRIES].stage
             /\ res.fail_label = res.attempt_fail_logs[1 + MAX_RETRIES].label
             /\ res.reason = res.attempt_fail_logs[1 + MAX_RETRIES].reason

C13_OnlyAppended ==
    IsPrefix(res.attempt_fail_logs, res'.attempt_fail_logs)

\* C13: when the retries are exhausted the FAILED result carries the stage,
\* label and reason of the last failed attempt; the attempt records are
\* numbered 1, 2, ... in order, one per failed attempt, and a step of the
\* program only ever appends to them.
C13_LastAttemptOrderedRecords ==
    [](C13_LastAttemptSurfaces) /\ [][C13_OnlyAppended]_vars

\* three attempts failing in three ways: the result shows the third
C13_Witness ==
    /\ RetriesExhausted
    /\ Len(res.attempt_fail_logs) = 3
    /\ res.attempt_fail_logs[1].stage = "DOWNLOAD"
    /\ res.attempt_fail_logs[1].label = "UNKNOWN"
    /\ res.attempt_fail_logs[2].stage = "TRANSCRIBE"
    /\ res.attempt_fail_logs[2].label = "WHISPER_EMPTY"
    /\ res.failed_stage = "SPLIT"
    /\ res.fail_label = "FFMPEG_FAIL"

\* the labels of the attempt records, in order
LabelsLogged == [i \in 1..Len(res.attempt_fail_logs) |-> res.attempt_fail_logs[i].label]

\* C14: the course of the retry loop is a function of which attempts failed
\* alone.  Whatever the failing stage, the error text or the label: the loop
\* goes on to the next attempt after every failure below the cap, pauses once
\* after each failed attempt except the last allowed one, stops at the first
\* attempt that goes through, and the number of attempts and the final status
\* follow from the pattern.
C14_RetryIgnoresFailureKind ==
    /\ Len(hist) <= 1 + MAX_RETRIES
    /\ Len(raised) = Len(hist)
    /\ calls.sleep = Min2(Cardinality(FailedAttempts), MAX_RETRIES)
    /\ (pc = "download" \/ InPipeline)
          => (Len(hist) = attempt /\ FailedAttempts = 1..Len(hist))
    /\ (Returned /\ hist # <<>>)
          => /\ res.attempts = Len(hist)
             /\ calls.download = Len(hist)
             /\ FailedAttempts \in {1..Len(hist), 1..(Len(hist) - 1)}
             /\ res.status = IF Len(hist) \in FailedAttempts THEN "FAILED" ELSE "SUCCESS"
             /\ Len(hist) \in FailedAttempts => Len(hist) = 1 + MAX_RETRIES

\* three failures of three kinds, at three stages, with three labels
C14_Witness ==
    /\ Returned
    /\ res.status = "FAILED"
    /\ raised = <<"timeout", "nofile", "whisper">>
    /\ hist = <<"normalize", "download", "transcribe">>
    /\ LabelsLogged = <<"TIMEOUT", "UNKNOWN", "UNKNOWN">>
    /\ res.attempts = 3
    /\ calls.sleep = 2

\* the stage names an attempt record may carry for an attempt that ended in
\* the stage h (the program files a failed normalization under DOWNLOAD)
RecordStages(h) ==
    CASE h = "download" -> {"DOWNLOAD"}
      [] h = "normalize" -> {"NORMALIZE", "DOWNLOAD"}
      [] h = "split" -> {"SPLIT"}
      [] OTHER -> {"TRANSCRIBE"}

\* C15: an attempt whose download, normalize or split call ran into its time
\* limit ends with an attempt record that names that stage and is labelled
\* TIMEOUT, and the loop goes on as after any other failure.
C15_TimeoutIsFailureOfItsStage ==
    /\ Len(raised) = Len(hist)
    /\ \A i \in 1..Len(raised) :
          (raised[i] = "timeout" /\ hist[i] \in {"download", "normalize", "split"})
             => /\ i <= Len(res.attempt_fail_logs)
                /\ res.attempt_fail_logs[i].label = "TIMEOUT"
                /\ res.attempt_fail_logs[i].stage \in RecordStages(hist[i])
                /\ (i < 1 + MAX_RETRIES /\ Len(hist) = i) => (attempt = i /\ pc # "ret")
                /\ (i = 1 + MAX_RETRIES) => res.status = "FAILED"

\* ------------------------------------------------------------------------
\* Claims about the cache of resolve_uc_id (Spec, SpecRuns)
\* ------------------------------------------------------------------------
\* the key of the channel being processed
KeyNow == NormalizeUrl(res.channel_url)

\* the two channels are configured with different spellings of one reference
SameKeyOtherSpelling ==
    /\ Len(channels) = 2
    /\ channels[1].url # channels[2].url
    /\ NormalizeUrl(channels[1].url) = NormalizeUrl(channels[2].url)

C16_KeyedByNormalizedReference ==
    /\ NormalizeUrl(UrlAMobile) = NormalizeUrl(UrlA)
    /\ NormalizeUrl(UrlA \o <<"/">>) = NormalizeUrl(UrlA)
    /\ \A k \in DOMAIN uc_cache : k = NormalizeUrl(k) /\ StartsWithUC(uc_cache[k])
    /\ (idx = 2 /\ pc # "resolve" /\ SameKeyOtherSpelling /\ Truthy(results[1].uc_id))
          => /\ obs.resolve = "hit"
             /\ calls.resolve = 0
             /\ res.uc_id = results[1].uc_id
    /\ obs.resolve = "ok"
          => /\ calls.resolve = 1
             /\ KeyNow \in DOMAIN uc_cache
             /\ uc_cache[KeyNow] = res.uc_id
    /\ obs.resolve = "hit" => (calls.resolve = 0 /\ uc_cache[KeyNow] = res.uc_id)
    /\ obs.resolve = "error" => calls.resolve = 1

C16_CacheWrittenOnlyOnSuccess ==
    /\ pc # "resolve" => (uc_cache' = uc_cache /\ lookups' = lookups)
    /\ pc = "resolve"
          => /\ obs'.resolve = "hit"
                   => (uc_cache' = uc_cache /\ lookups' = lookups)
             /\ obs'.resolve = "ok"
                   => /\ KeyNow \notin DOMAIN uc_cache
                      /\ uc_cache' = CachePut(uc_cache, KeyNow, res'.uc_id)
                      /\ lookups' = [lookups EXCEPT ![KeyNow] = @ + 1]
             /\ obs'.resolve = "error"
                   => /\ uc_cache' = uc_cache
                      /\ lookups' = [lookups EXCEPT ![KeyNow] = @ + 1]

\* C16: the cache is keyed by the normalized reference.  The mobile-domain
\* spelling and trailing slashes give the same key, so once one spelling is
\* resolved the other is a cache hit without lookup and with the same id.  A
\* miss issues exactly one lookup and has the id in the cache when the call
\* returns; a failed resolution leaves the cache as it was.
C16_NormalizedKeyHitMissFrame ==
    [](C16_KeyedByNormalizedReference) /\ [][C16_CacheWrittenOnlyOnSuccess]_vars

\* the first channel resolved the plain spelling through uploader_id, the
\* second channel, configured with the mobile spelling, hits the cache
C16_Witness ==
    /\ idx = 2
    /\ pc = "pick"
    /\ channels = ChannelsSame
    /\ res.channel_url = UrlAMobile
    /\ obs.resolve = "hit"
    /\ res.uc_id = UC2
    /\ results[1].uc_id = UC2
    /\ DOMAIN uc_cache = {NormalizeUrl(UrlA)}
    /\ lookups[NormalizeUrl(UrlA)] = 1

\* C17: the cache a run works with after loading contains every entry the
\* previous run persisted at its end, so a reference the previous run
\* resolved is answered from the cache, without lookup, in this run.
C17_CacheSurvivesToNextRun ==
    (run > 1 /\ pc # "start")
       => /\ \A k \in DOMAIN saved.data :
                k \in DOMAIN uc_cache /\ uc_cache[k] = saved.data[k]
          /\ \A k \in DOMAIN saved.data : lookups[k] = 0

\* ------------------------------------------------------------------------
\* Claims about the attempt counter (SpecChan)
\* ------------------------------------------------------------------------
InProcessChannel ==
    pc \in {"resolve", "pick", "download", "normalize", "split", "transcribe", "ret"}

\* the channel ended before the pipeline started
EndedBeforePipeline ==
    \/ obs.resolve = "error"
    \/ obs.list = "error"
    \/ res.status = "NO_VIDEO"
    \/ (obs.list = "listed" /\ res.status = "FAILED" /\ res.video_url = NoneQ)

SuccessBonus == IF res.status = "SUCCESS" THEN 1 ELSE 0

\* what both readings share: the range of the counter, when it is zero, and
\* when a pause is taken
C18_RangeZeroAndPauses ==
    /\ 0 <= res.attempts
    /\ res.attempts <= 1 + MAX_RETRIES
    /\ Returned => (res.attempts = 0 <=> EndedBeforePipeline)
    /\ calls.sleep = Min2(Len(res.attempt_fail_logs), MAX_RETRIES)

\* C18 as stated: in every state of process_channel the counter equals the
\* number of attempt records, plus one when the status is SUCCESS.
C18_CounterIsRecordsInEveryState ==
    InProcessChannel
       => /\ C18_RangeZeroAndPauses
          /\ res.attempts = Len(res.attempt_fail_logs) + SuccessBonus

\* C18: the counter is between 0 and 1 + MAX_RETRIES; it equals the number of
\* attempt records, plus one when the status is SUCCESS, whenever
\* process_channel returns and between two attempts, and it is one more than
\* the number of records while an attempt is under way; it is zero exactly
\* when the channel ended before the pipeline started; a pause is taken only
\* after a failed attempt that is not the last allowed one.
C18_CounterIsRecordsOutsideAttempts ==
    InProcessChannel
       => /\ C18_RangeZeroAndPauses
          /\ pc \in {"resolve", "pick", "download", "ret"}
                => res.attempts = Len(res.attempt_fail_logs) + SuccessBonus
          /\ InPipeline => res.attempts = Len(res.attempt_fail_logs) + 1

\* the second attempt is under way after a first one that failed and was
\* followed by a pause
C18_Witness ==
    /\ pc = "split"
    /\ res.attempts = 2
    /\ Len(res.attempt_fail_logs) = 1
    /\ calls.sleep = 1
    /\ res.status = "FAILED"

\* ------------------------------------------------------------------------
\* The selector as the code has it (SpecSel)
\* ------------------------------------------------------------------------
\* the entries among the first ListingCap that have an id and an upload date
\* that stands for an instant within RECENT_HOURS of now
RecentIdx ==
    {i \in 1..Min2(Len(listing), ListingCap) :
        /\ HasId(listing[i])
        /\ parse_upload_date_yyyymmdd(listing[i].upload_date).kind = "dt"
        /\ clock - parse_upload_date_yyyymmdd(listing[i].upload_date).h <= RECENT_HOURS}

\* C19: the selector returns the first entry in listing order, among the
\* first 30, that has an id and a parseable upload date within RECENT_HOURS
\* of now, and nothing when there is none; entries without id or with an
\* unparseable date are passed over without error, and entries behind
\* position 30 or behind the returned one have no influence.
C19_FirstRecentAmongThirty ==
    sel.kind # "idle"
       => /\ sel.kind # "raise"
          /\ RecentIdx = {} => sel.kind = "none"
          /\ RecentIdx # {}
                => /\ sel.kind = "found"
                   /\ sel.idx \in RecentIdx
                   /\ \A j \in RecentIdx : sel.idx <= j
          /\ sel.kind = "found" => sel.idx <= ListingCap

====
